---- MODULE Spec2Model ----
\* A model of app.py: the YouTube transcript -> notes Streamlit script.
\* Strings are sequences of one-character strings, so that parsing,
\* splitting, joining and pattern search are computed character by character.
EXTENDS Integers, Sequences, FiniteSets, TLC

VARIABLES
    apiKey,          \* API_KEY is set (line 30)
    hasGet,          \* hasattr(YouTubeTranscriptApi, "get_transcript")
    hasList,         \* hasattr(YouTubeTranscriptApi, "list_transcripts")
    strictCtor,      \* NoTranscriptFound is the library class (needs more than one argument)
    youtube_link,    \* the text input (line 207)
    linkParts,       \* how youtube_link was built (history only)
    vid,             \* the module-level vid of the thumbnail (line 210)
    pc,              \* position of the script run
    caller,          \* "ui": the running function was called by the script; "direct": it was called on its own
    video_id,        \* local of extract_transcript_text
    listing,         \* tl: the listing returned by list_transcripts
    idx,             \* position of the for loops (listing index, model index)
    transcript_text, \* result of extract_transcript_text
    summary,         \* result of generate_summary_with_gemini
    screen,          \* elements displayed by the current run, in order
    cache,           \* st.cache_data store of extract_transcript_text, keyed by URL
    cacheHit,        \* the current submit was served from the cache
    svcCalls,        \* number of calls made to the transcript service in this submit
    allDisabled,     \* every call made to the transcript service in this submit raised TranscriptsDisabled
    hardRaised,      \* VideoUnavailable / TooManyRequests raised by the transcript service in this submit
    src,             \* which fetch produced transcript_text
    genLog           \* model names tried in this call, each with the text it yielded

vars == <<apiKey, hasGet, hasList, strictCtor, youtube_link, linkParts, vid, pc, caller,
          video_id, listing, idx, transcript_text, summary, screen, cache,
          cacheHit, svcCalls, allDisabled, hardRaised, src, genLog>>

\* ---------------------------------------------------------------------
\* Bounds
\* ---------------------------------------------------------------------
MaxListed == 2      \* transcripts in a listing
MaxChunks == 2      \* caption fragments in a fetched transcript
MaxCandidates == 2  \* candidates in a generation response

\* Python's None; never equal to a string, since strings hold one-character elements
None == <<"<None>">>

Truthy(x) == x # None /\ x # <<>>

\* ---------------------------------------------------------------------
\* Characters
\* ---------------------------------------------------------------------
Digits == <<"0","1","2","3","4","5","6","7","8","9">>
Lowers == <<"a","b","c","d","e","f","g","h","i","j","k","l","m","n","o","p","q","r","s","t","u","v","w","x","y","z">>
Uppers == <<"A","B","C","D","E","F","G","H","I","J","K","L","M","N","O","P","Q","R","S","T","U","V","W","X","Y","Z">>

Range(s) == {s[i] : i \in 1..Len(s)}

IsAlpha(c) == c \in Range(Lowers) \cup Range(Uppers)

\* str.lower() of one character
LowerChar(c) ==
    IF c \in Range(Uppers)
    THEN Lowers[CHOOSE i \in 1..Len(Uppers) : Uppers[i] = c]
    ELSE c

Lower(s) == [i \in 1..Len(s) |-> LowerChar(s[i])]

\* urllib.parse.scheme_chars
scheme_chars == Range(Lowers) \cup Range(Uppers) \cup Range(Digits) \cup {"+", "-", "."}

\* the character class [0-9A-Za-z_-] of the fallback pattern
IdChars == Range(Digits) \cup Range(Uppers) \cup Range(Lowers) \cup {"_", "-"}

IdLen == 11

\* ---------------------------------------------------------------------
\* str methods
\* ---------------------------------------------------------------------
Min(S) == CHOOSE x \in S : \A y \in S : x <= y
Max(S) == CHOOSE x \in S : \A y \in S : x >= y

\* s[a:] and s[:b] (1-based, inclusive)
From(s, a) == SubSeq(s, a, Len(s))
Upto(s, b) == SubSeq(s, 1, b)

StartsWith(s, p) == Len(s) >= Len(p) /\ SubSeq(s, 1, Len(p)) = p

\* p occurs in s at position i
OccursAt(s, p, i) == i >= 1 /\ i + Len(p) - 1 <= Len(s) /\ SubSeq(s, i, i + Len(p) - 1) = p

\* "p in s"
Contains(s, p) == \E i \in 1..(Len(s) + 1) : OccursAt(s, p, i)

\* s.find(c) for one character, 0 when absent (1-based otherwise)
Find(s, c) ==
    IF c \in Range(s) THEN Min({i \in 1..Len(s) : s[i] = c}) ELSE 0

\* s.rfind(c)
RFind(s, c) ==
    IF c \in Range(s) THEN Max({i \in 1..Len(s) : s[i] = c}) ELSE 0

\* s.find(c, start)
FindFrom(s, c, start) ==
    LET S == {i \in start..Len(s) : s[i] = c}
    IN  IF S = {} THEN 0 ELSE Min(S)

\* the pieces of s around position i (the whole of s, and nothing, when i = 0)
Before(s, i) == IF i = 0 THEN s ELSE Upto(s, i - 1)
After(s, i) == IF i = 0 THEN <<>> ELSE From(s, i + 1)

\* s.partition(c)[0] and s.partition(c)[2]
PartitionHead(s, c) == Before(s, Find(s, c))
PartitionTail(s, c) == After(s, Find(s, c))

\* s.rpartition(c)[2]
RPartitionTail(s, c) == From(s, RFind(s, c) + 1)

\* s.lstrip(c)
RECURSIVE LStrip(_, _)
LStrip(s, c) ==
    IF s # <<>> /\ s[1] = c THEN LStrip(Tail(s), c) ELSE s

\* s.split(c): always at least one piece
RECURSIVE Split(_, _)
SplitAt(s, c, i) ==
    IF i = 0 THEN <<s>> ELSE <<Upto(s, i - 1)>> \o Split(From(s, i + 1), c)

Split(s, c) == SplitAt(s, c, Find(s, c))

\* sep.join(parts)
RECURSIVE Join(_, _)
Join(sep, parts) ==
    IF parts = <<>> THEN <<>>
    ELSE IF Len(parts) = 1 THEN parts[1]
    ELSE parts[1] \o sep \o Join(sep, Tail(parts))

\* ---------------------------------------------------------------------
\* urllib.parse (inputs are ASCII without leading blanks or control characters)
\* ---------------------------------------------------------------------
chHttps == <<"h","t","t","p","s">>
chHttp == <<"h","t","t","p">>

\* the members of urllib.parse.uses_params that an input can carry
uses_params == {<<>>, chHttp, chHttps}

\* printable ASCII, code 32 first (the quote, the backslash and the backtick are spelled out)
Ascii == <<" ","!","<quote>","#","$","%","&","'","(",")","*","+",",","-",".","/","0","1","2","3","4","5","6","7","8","9",":",";","<","=",">","?","@","A","B","C","D","E","F","G","H","I","J","K","L","M","N","O","P","Q","R","S","T","U","V","W","X","Y","Z","[","<backslash>","]","^","_","<backtick>","a","b","c","d","e","f","g","h","i","j","k","l","m","n","o","p","q","r","s","t","u","v","w","x","y","z","{","|","}","~">>

HexDigits == <<"0","1","2","3","4","5","6","7","8","9","A","B","C","D","E","F">>

IsHex(c) == LowerChar(c) \in Range(Lower(HexDigits))

HexVal(c) == (CHOOSE i \in 1..16 : LowerChar(HexDigits[i]) = LowerChar(c)) - 1

\* the scheme part of urlsplit, i = url.find(':'): <<scheme, rest>>
SchemeAt(url, i) ==
    IF i > 1 /\ IsAlpha(url[1]) /\ (\A k \in 1..(i - 1) : url[k] \in scheme_chars)
    THEN <<Lower(Upto(url, i - 1)), From(url, i + 1)>>
    ELSE <<<<>>, url>>

SplitScheme(url) == SchemeAt(url, Find(url, ":"))

\* _splitnetloc(url, 2): <<netloc, rest>>; delim is 1 past the end when no delimiter is found
NetlocUpTo(url, delim) == <<SubSeq(url, 3, delim - 1), From(url, delim)>>

SplitNetloc(url) ==
    NetlocUpTo(url, Min(({FindFrom(url, c, 3) : c \in {"/", "?", "#"}} \ {0}) \cup {Len(url) + 1}))

\* _splitparams(url), i = the position of the ';' : <<path, params>>
ParamsAt(url, i) == IF i = 0 THEN <<url, <<>>>> ELSE <<Upto(url, i - 1), From(url, i + 1)>>

SplitParams(url) ==
    ParamsAt(url, IF "/" \in Range(url) THEN FindFrom(url, ";", RFind(url, "/")) ELSE Find(url, ";"))

\* urlparse splits the params off the path for the schemes of uses_params
PathAndParams(scheme, rawPath) ==
    IF scheme \in uses_params /\ ";" \in Range(rawPath) THEN SplitParams(rawPath) ELSE <<rawPath, <<>>>>

\* urlsplit raises ValueError("Invalid IPv6 URL")
BadBrackets(netloc) ==
    \/ "[" \in Range(netloc) /\ "]" \notin Range(netloc)
    \/ "]" \in Range(netloc) /\ "[" \notin Range(netloc)

\* the ParseResult; ok = FALSE stands for the ValueError
ParseResult(scheme, netloc, sp, query, fragment) ==
    [ok |-> ~BadBrackets(netloc), scheme |-> scheme, netloc |-> netloc, path |-> sp[1],
     params |-> sp[2], query |-> query, fragment |-> fragment]

\* urlsplit after the fragment was split off
ParseQuery(scheme, netloc, noFrag, fragment) ==
    ParseResult(scheme, netloc, PathAndParams(scheme, PartitionHead(noFrag, "?")),
                PartitionTail(noFrag, "?"), fragment)

\* urlsplit after the netloc was split off: sn = <<netloc, rest>>
ParseFragment(scheme, sn) ==
    ParseQuery(scheme, sn[1], PartitionHead(sn[2], "#"), PartitionTail(sn[2], "#"))

\* urlsplit after the scheme was split off: ss = <<scheme, rest>>
ParseNetloc(ss) ==
    ParseFragment(ss[1], IF StartsWith(ss[2], <<"/", "/">>) THEN SplitNetloc(ss[2]) ELSE <<<<>>, ss[2]>>)

\* urlparse(url)
urlparse(url) == ParseNetloc(SplitScheme(url))

\* the host of _hostinfo: between the brackets, or up to the port
HostPart(hostinfo) ==
    IF "[" \in Range(hostinfo)
    THEN PartitionHead(PartitionTail(hostinfo, "["), "]")
    ELSE PartitionHead(hostinfo, ":")

LowerOrNone(host) == IF host = <<>> THEN None ELSE Lower(host)

\* ParseResult.hostname; None when the host is empty
hostname(parsed) == LowerOrNone(HostPart(RPartitionTail(parsed.netloc, "@")))

\* urllib.parse.unquote after replace('+', ' '): %XX of a printable ASCII code is decoded
RECURSIVE Unquote(_)
Unquote(s) ==
    IF s = <<>> THEN <<>>
    ELSE IF s[1] = "+" THEN <<" ">> \o Unquote(Tail(s))
    ELSE IF /\ s[1] = "%" /\ Len(s) >= 3 /\ IsHex(s[2]) /\ IsHex(s[3])
            /\ 16 * HexVal(s[2]) + HexVal(s[3]) \in 32..126
         THEN <<Ascii[16 * HexVal(s[2]) + HexVal(s[3]) - 31]>> \o Unquote(From(s, 4))
         ELSE <<s[1]>> \o Unquote(Tail(s))

\* the pair of one field of the query: nothing for a field without '=' or with a blank value
PairOf(name, value) ==
    IF value = <<>> THEN <<>> ELSE << <<Unquote(name), Unquote(value)>> >>

\* parse_qsl(query): the <<name, value>> pairs, blank values dropped
RECURSIVE QsPairs(_)
QsPairs(fields) ==
    IF fields = <<>> THEN <<>>
    ELSE PairOf(PartitionHead(fields[1], "="), PartitionTail(fields[1], "=")) \o QsPairs(Tail(fields))

parse_qsl(query) == IF query = <<>> THEN <<>> ELSE QsPairs(Split(query, "&"))

\* the first value among the pairs at the positions S, None when there is none
ValueAt(pairs, S) == IF S = {} THEN None ELSE pairs[Min(S)][2]

FirstValue(pairs, name) == ValueAt(pairs, {i \in 1..Len(pairs) : pairs[i][1] = name})

\* parse_qs(query).get(name, [None])[0]
QsFirst(query, name) == FirstValue(parse_qsl(query), name)

\* ---------------------------------------------------------------------
\* get_video_id
\* ---------------------------------------------------------------------
\* the pattern (?:v=|/)([0-9A-Za-z_-]{11}) matches at position p; the group starts at g
GroupAt(url, g) ==
    /\ g + IdLen - 1 <= Len(url)
    /\ \A k \in g..(g + IdLen - 1) : url[k] \in IdChars

MatchAt(url, p) ==
    \/ OccursAt(url, <<"v", "=">>, p) /\ GroupAt(url, p + 2)
    \/ url[p] = "/" /\ GroupAt(url, p + 1)

\* group(1) of the match at position p
Group(url, p) ==
    IF url[p] = "/" THEN SubSeq(url, p + 1, p + IdLen) ELSE SubSeq(url, p + 2, p + IdLen + 1)

\* group(1) of the leftmost of the matches at the positions P, None when there is none
LeftmostGroup(url, P) == IF P = {} THEN None ELSE Group(url, Min(P))

\* re.search(...).group(1), None when nothing matches
RegexFallback(url) == LeftmostGroup(url, {p \in 1..Len(url) : MatchAt(url, p)})

ShortHosts == { <<"y","o","u","t","u",".","b","e">>,
                <<"w","w","w",".","y","o","u","t","u",".","b","e">> }

sYoutube == <<"y","o","u","t","u","b","e">>
sWatch == <<"/","w","a","t","c","h">>
sShorts == <<"/","s","h","o","r","t","s","/">>
sEmbed == <<"/","e","m","b","e","d","/">>

\* host in ("youtu.be", "www.youtu.be")
IsShortHost(host) == host \in ShortHosts

\* a host test that knows two hosts only
IsYoutubeHost_exact(host) ==
    host \in { <<"y","o","u","t","u","b","e",".","c","o","m">>,
               <<"w","w","w",".","y","o","u","t","u","b","e",".","c","o","m">> }

\* "youtube" in host
IsYoutubeHost(host) == Contains(host, sYoutube)

\* a candidate is returned only if len(candidate) == 11
Eleven(candidate) == IF Len(candidate) = IdLen THEN candidate ELSE None

\* if vid and len(vid) == 11 (line 76)
WatchId(v) == IF Truthy(v) THEN Eleven(v) ELSE None

\* the youtu.be branch (lines 66-69): the returned id, None when the branch does not return
ShortBranch(parsed) == Eleven(Split(LStrip(parsed.path, "/"), "/")[1])

\* the /watch branch (lines 74-77)
WatchBranch(parsed) ==
    IF parsed.path = sWatch THEN WatchId(QsFirst(parsed.query, <<"v">>)) ELSE None

\* parts[2] of path.split("/") when len(parts) >= 3
ThirdPart(parts) == IF Len(parts) >= 3 THEN Eleven(parts[3]) ELSE None

\* the /shorts/ and /embed/ branches (lines 79-87)
SegmentBranch(parsed, prefix) ==
    IF StartsWith(parsed.path, prefix) THEN ThirdPart(Split(parsed.path, "/")) ELSE None

\* the first of the branches that returns
FirstOf(a, b, c) == IF a # None THEN a ELSE IF b # None THEN b ELSE c

\* the youtube.com branches, in order (lines 72-87)
YoutubeBranch(parsed) ==
    FirstOf(WatchBranch(parsed), SegmentBranch(parsed, sShorts), SegmentBranch(parsed, sEmbed))

\* host = (parsed.hostname or "").lower()
HostOrEmpty(h) == IF h = None THEN <<>> ELSE Lower(h)

\* the body of the try once the host is known (lines 65-92)
IdFromHost(url, parsed, host) ==
    FirstOf(IF IsShortHost(host) THEN ShortBranch(parsed) ELSE None,
            IF IsYoutubeHost(host) THEN YoutubeBranch(parsed) ELSE None,
            RegexFallback(url))

\* the try of lines 61-95: a ValueError of urlparse is swallowed
IdFromParsed(url, parsed) ==
    IF ~parsed.ok THEN None ELSE IdFromHost(url, parsed, HostOrEmpty(hostname(parsed)))

get_video_id(url) == IdFromParsed(url, urlparse(url))

\* ---------------------------------------------------------------------
\* Inputs: the URLs typed into the text box
\* ---------------------------------------------------------------------
hYoutuBe == <<"y","o","u","t","u",".","b","e">>
hWwwYoutuBe == <<"w","w","w",".","y","o","u","t","u",".","b","e">>
hWwwYoutube == <<"w","w","w",".","y","o","u","t","u","b","e",".","c","o","m">>
hYoutube == <<"y","o","u","t","u","b","e",".","c","o","m">>
hMobile == <<"m",".","y","o","u","t","u","b","e",".","c","o","m">>
hNoCookie == <<"y","o","u","t","u","b","e","-","n","o","c","o","o","k","i","e",".","c","o","m">>
hMixedCase == <<"W","W","W",".","Y","o","u","T","u","b","e",".","c","o","m">>
hWithPort == <<"w","w","w",".","y","o","u","t","u","b","e",".","c","o","m",":","4","4","3">>
hExample == <<"e","x","a","m","p","l","e",".","c","o","m">>
hVimeo == <<"v","i","m","e","o",".","c","o","m">>

ShortLinkHosts == {hYoutuBe, hWwwYoutuBe}
StandardHosts == {hWwwYoutube, hYoutube, hMobile, hNoCookie, hMixedCase, hWithPort}
OtherHosts == {hExample, hVimeo}
Hosts == ShortLinkHosts \cup StandardHosts \cup OtherHosts

idRick == <<"d","Q","w","4","w","9","W","g","X","c","Q">>
idDashes == <<"a","-","b","_","c","-","d","_","e","-","f">>
idDigits == <<"0","0","0","0","0","0","0","0","0","0","0">>
idTen == <<"d","Q","w","4","w","9","W","g","X","c">>
idTwelve == <<"d","Q","w","4","w","9","W","g","X","c","Q","X">>
idThree == <<"a","b","c">>
idPlus == <<"d","Q","w","4","w","9","W","g","X","+","Q">>
idEscaped == <<"d","Q","w","4","w","9","W","g","X","c","%","5","1">>

WellFormedIds == {idRick, idDashes, idDigits}
Ids == WellFormedIds \cup {idTen, idTwelve, idThree, idPlus, idEscaped, <<>>}

sAbout == <<"/","a","b","o","u","t">>
qTime == <<"t","=","5","s">>
qFeature == <<"f","e","a","t","u","r","e","=","s","h","a","r","e">>
sNotAUrl == <<"n","o","t"," ","a"," ","u","r","l">>
sBadV6 == <<"h","t","t","p",":","/","/","[","y","o","u","t","u",".","b","e","/","d","Q","w","4","w","9","W","g","X","c","Q">>

Schemes == {chHttps, chHttp, <<>>}
Shapes == {"short", "watch", "shorts", "embed"}
Extras == {"none", "after", "before", "frag", "params"}

\* an input built from parts
UrlParts ==
    [scheme : Schemes, host : Hosts, shape : Shapes, id : Ids, extra : Extras]
    \cup [scheme : Schemes, host : Hosts, shape : {"page"}, id : {sAbout}, extra : {"none"}]
    \cup [scheme : {<<>>}, host : {<<>>}, shape : {"raw"}, id : {<<>>, sNotAUrl, sBadV6}, extra : {"none"}]

Prefix(p) == (IF p.scheme = <<>> THEN <<>> ELSE p.scheme \o <<":", "/", "/">>) \o p.host

\* the text of an input
Render(p) ==
    CASE p.shape = "raw" -> p.id
      [] p.shape = "page" -> Prefix(p) \o p.id
      [] p.shape = "watch" ->
            Prefix(p) \o sWatch \o <<"?">>
            \o (IF p.extra = "before" THEN qFeature \o <<"&">> ELSE <<>>)
            \o <<"v", "=">> \o p.id
            \o (CASE p.extra = "after" -> <<"&">> \o qTime
                  [] p.extra = "frag" -> <<"#">> \o qTime
                  [] p.extra = "params" -> <<";">> \o qTime
                  [] OTHER -> <<>>)
      [] OTHER ->
            Prefix(p)
            \o (CASE p.shape = "shorts" -> sShorts [] p.shape = "embed" -> sEmbed [] OTHER -> <<"/">>)
            \o p.id
            \o (CASE p.extra = "after" -> <<"?">> \o qTime
                  [] p.extra = "before" -> <<"/", "?">> \o qTime
                  [] p.extra = "frag" -> <<"#">> \o qTime
                  [] p.extra = "params" -> <<";">> \o qTime
                  [] OTHER -> <<>>)

\* the input before anything is typed
NoParts == [scheme |-> <<>>, host |-> <<>>, shape |-> "raw", id |-> <<>>, extra |-> "none"]

\* the inputs submitted to the whole script
SubmitParts ==
    { [scheme |-> chHttps, host |-> hYoutuBe, shape |-> "short", id |-> idRick, extra |-> "none"],
      [scheme |-> chHttps, host |-> hVimeo, shape |-> "page", id |-> sAbout, extra |-> "none"] }

\* ---------------------------------------------------------------------
\* The external services
\* ---------------------------------------------------------------------
NoTranscriptFound == "NoTranscriptFound"
TranscriptsDisabled == "TranscriptsDisabled"
VideoUnavailable == "VideoUnavailable"
TooManyRequests == "TooManyRequests"

\* what a call to the transcript service can raise
Exceptions == {NoTranscriptFound, TranscriptsDisabled, VideoUnavailable, TooManyRequests, "Exception"}

SoftExceptions == {NoTranscriptFound, TranscriptsDisabled}
HardExceptions == {VideoUnavailable, TooManyRequests}

\* chunk.get("text", "") of a caption fragment
ChunkTexts == {<<>>, <<"a">>}

\* the sequences over S of length at most n
SeqsUpTo(S, n) == UNION {[1..k -> S] : k \in 0..n}

\* the fragment lists a fetch can return
Items == SeqsUpTo(ChunkTexts, MaxChunks)

\* " ".join(chunk.get("text", "") for chunk in items)
JoinText(items) == Join(<<" ">>, items)

\* a listed transcript: whether translate("en") and the fetch of the translation work,
\* and whether the fetch of the transcript itself works
Listed == [trans : {"ok", "fail"}, orig : {"ok", "fail"}]

Listings == SeqsUpTo(Listed, MaxListed)

\* the model names, in the order of the for loop
MODELS == <<"gemini-1.5-flash", "gemini-pro">>

\* reading the attribute raises
Raises == <<"<raises>">>

\* a candidate of a response: its part texts (None for a part without text);
\* bad = c.content.parts raises
Candidates ==
    { [bad |-> TRUE, parts |-> <<>>],
      [bad |-> FALSE, parts |-> <<>>],
      [bad |-> FALSE, parts |-> <<<<"p">>>>],
      [bad |-> FALSE, parts |-> <<None, <<>>, <<"q">>>>] }

\* a response of generate_content: resp.text (None when absent) and resp.candidates
\* (empty when absent); raised = GenerativeModel(...) or generate_content(...) raised
Responses ==
    {[raised |-> TRUE, text |-> None, candidates |-> <<>>]}
    \cup [raised : {FALSE}, text : {<<"s">>, Raises}, candidates : {<<>>}]
    \cup [raised : {FALSE}, text : {None, <<>>}, candidates : SeqsUpTo(Candidates, MaxCandidates)]

\* the part texts appended for one candidate
RECURSIVE PartTexts(_)
PartTexts(ps) ==
    IF ps = <<>> THEN <<>>
    ELSE (IF Truthy(ps[1]) THEN <<ps[1]>> ELSE <<>>) \o PartTexts(Tail(ps))

\* the list parts built by lines 185-192
RECURSIVE CollectParts(_)
CollectParts(cs) ==
    IF cs = <<>> THEN <<>>
    ELSE (IF cs[1].bad THEN <<>> ELSE PartTexts(cs[1].parts)) \o CollectParts(Tail(cs))

\* what one pass of the loop body (lines 178-198) does with a response:
\* "text" with the returned text, "raised" (except branch) or "empty" (falls out of the try)
ResponseOutcome(r) ==
    IF r.raised \/ r.text = Raises THEN [outcome |-> "raised", text |-> None]
    ELSE IF Truthy(r.text) THEN [outcome |-> "text", text |-> r.text]
    ELSE IF r.candidates # <<>> /\ CollectParts(r.candidates) # <<>>
         THEN [outcome |-> "text", text |-> Join(<<"\n">>, CollectParts(r.candidates))]
         ELSE [outcome |-> "empty", text |-> None]

\* ---------------------------------------------------------------------
\* What the script displays
\* ---------------------------------------------------------------------
El(kind, msg) == [kind |-> kind, msg |-> msg, exc |-> "", text |-> <<>>]

ErrApiKey == El("error", "Missing GOOGLE_API_KEY in your environment (.env). Please set it and restart.")
ErrInvalidUrl == El("error", "Invalid YouTube URL. Please enter a valid video link.")
ErrNoCapability == El("error", "Your installed youtube-transcript-api does not expose get_transcript or list_transcripts.")
WarnNotAvailable == El("warning", "Transcript is not available for this video.")
ErrGemini == El("error", "Gemini summarization failed. Please check your API key and model access.")
ErrSummary == El("error", "Failed to generate summary from the transcript.")
Heading == El("markdown", "## Detailed Notes")

\* st.error(f"{type(e).__name__}: {e}")
ErrHard(e) == [kind |-> "error", msg |-> "{type(e).__name__}: {e}", exc |-> e, text |-> <<>>]

\* st.error(f"Unexpected error while fetching transcript: {e}")
ErrUnexpected(e) == [kind |-> "error", msg |-> "Unexpected error while fetching transcript: {e}", exc |-> e, text |-> <<>>]

\* st.write(summary)
Written(t) == [kind |-> "write", msg |-> "", exc |-> "", text |-> t]

\* st.image(f"http://img.youtube.com/vi/{vid}/0.jpg")
Image(v) == [kind |-> "image", msg |-> "http://img.youtube.com/vi/{vid}/0.jpg", exc |-> "", text |-> v]

\* the except clauses without the last one
OuterHandler_noCatchAll(e) ==
    IF e \in {NoTranscriptFound, TranscriptsDisabled} THEN WarnNotAvailable
    ELSE IF e \in {VideoUnavailable, TooManyRequests} THEN ErrHard(e)
    ELSE [kind |-> "uncaught", msg |-> "", exc |-> e, text |-> <<>>]

\* the except clauses of extract_transcript_text (lines 157-165), in order
OuterHandler(e) ==
    IF e \in {NoTranscriptFound, TranscriptsDisabled} THEN WarnNotAvailable
    ELSE IF e \in {VideoUnavailable, TooManyRequests} THEN ErrHard(e)
    ELSE ErrUnexpected(e)

\* raise NoTranscriptFound(video_id) (line 146): the library's class takes more than
\* one argument, the local fallback class (lines 21-24) takes any
RaisedAt146 == IF strictCtor THEN "TypeError" ELSE NoTranscriptFound

\* a test for None only
NoInput_noneOnly(text) == text = None

\* if not transcript_text (line 174)
NoInput(text) == ~Truthy(text)

\* ---------------------------------------------------------------------
\* st.cache_data
\* ---------------------------------------------------------------------
NoEntry == [hit |-> FALSE, value |-> None, elems |-> <<>>]

\* a lookup that ignores the key
CacheLookup_anyKey(c, url) ==
    IF DOMAIN c # {}
    THEN [hit |-> TRUE, value |-> c[CHOOSE u \in DOMAIN c : TRUE].value,
          elems |-> c[CHOOSE u \in DOMAIN c : TRUE].elems]
    ELSE NoEntry

\* the stored entry of a key, NoEntry on a miss
CacheLookup(c, url) ==
    IF url \in DOMAIN c THEN [hit |-> TRUE, value |-> c[url].value, elems |-> c[url].elems]
    ELSE NoEntry

\* the store after the call for url returned value and displayed elems
CacheStore(c, url, value, elems) ==
    [u \in DOMAIN c \cup {url} |->
        IF u = url THEN [value |-> value, elems |-> elems] ELSE c[u]]

\* the store without the entry of url (ttl=3600 elapsed)
CacheDrop(c, url) == [u \in DOMAIN c \ {url} |-> c[u]]

\* ---------------------------------------------------------------------
\* State
\* ---------------------------------------------------------------------
envVars == <<apiKey, hasGet, hasList, strictCtor>>
inputVars == <<youtube_link, linkParts>>

NoSrc == [kind |-> "none", idx |-> 0, items |-> <<>>]

Init ==
    /\ apiKey \in BOOLEAN
    /\ hasGet \in BOOLEAN
    /\ hasList \in BOOLEAN
    /\ strictCtor \in BOOLEAN
    /\ youtube_link = <<>>
    /\ linkParts = NoParts
    /\ vid = None
    /\ pc = IF apiKey THEN "idle" ELSE "stopped"
    /\ caller = "ui"
    /\ video_id = None
    /\ listing = <<>>
    /\ idx = 0
    /\ transcript_text = None
    /\ summary = None
    /\ screen = IF apiKey THEN <<>> ELSE <<ErrApiKey>>
    /\ cache = <<>>
    /\ cacheHit = FALSE
    /\ svcCalls = 0
    /\ allDisabled = TRUE
    /\ hardRaised = {}
    /\ src = NoSrc
    /\ genLog = <<>>

\* the script is waiting for an interaction
Waiting == pc \in {"idle", "done"}

\* lines 209-212 of a run
Thumbnail(url) == IF url # <<>> THEN get_video_id(url) ELSE None

\* a run starts: nothing of the previous run is left
FreshRun ==
    /\ listing' = <<>>
    /\ summary' = None
    /\ svcCalls' = 0
    /\ allDisabled' = TRUE
    /\ hardRaised' = {}
    /\ src' = NoSrc
    /\ genLog' = <<>>

\* the text of the text box changes (line 207); the script is about to rerun
Typed(p) ==
    /\ Waiting
    /\ youtube_link' = Render(p)
    /\ linkParts' = p
    /\ pc' = "typed"
    /\ UNCHANGED <<envVars, vid, caller, video_id, listing, idx, transcript_text, summary, screen,
                   cache, cacheHit, svcCalls, allDisabled, hardRaised, src, genLog>>

EnterUrl == \E p \in SubmitParts : Typed(p)

\* st.image of lines 211-212
ImageOf(v) == IF Truthy(v) THEN <<Image(v)>> ELSE <<>>

\* a run without the button pressed, v the vid of lines 209-210
Show(v) ==
    /\ pc = "typed"
    /\ vid' = v
    /\ screen' = ImageOf(v)
    /\ pc' = "idle"
    /\ caller' = "ui"
    /\ transcript_text' = None
    /\ cacheHit' = FALSE
    /\ video_id' = None
    /\ idx' = 0
    /\ FreshRun
    /\ UNCHANGED <<envVars, inputVars, cache>>

\* the script reruns with the button not pressed (lines 207-212)
Rerun == Show(Thumbnail(youtube_link))

\* extract_transcript_text returns value after displaying elems; the result is stored
Return(base, value, elems) ==
    /\ transcript_text' = value
    /\ cache' = CacheStore(cache, youtube_link, value, elems)
    /\ screen' = base \o elems
    /\ pc' = "returned"

\* an exception reaches the except clauses of lines 157-165
Outer(e) ==
    IF OuterHandler(e).kind = "uncaught"
    THEN pc' = "crashed" /\ UNCHANGED <<transcript_text, cache, screen>>
    ELSE Return(screen, None, <<OuterHandler(e)>>)

Goto(l) == pc' = l /\ UNCHANGED <<transcript_text, cache, screen>>

\* one more call to the transcript service, with outcome o ("ok" or what it raised)
Called(o) ==
    /\ svcCalls' = svcCalls + 1
    /\ allDisabled' = (allDisabled /\ o = TranscriptsDisabled)
    /\ hardRaised' = hardRaised \cup ({o} \cap HardExceptions)

\* a run with the button pressed: v the vid of lines 209-210, id the video_id of
\* line 107, entry what the cache holds for the URL (lines 214-216, 98-116)
Submit(v, id, entry) ==
    /\ Waiting
    /\ caller' = "ui"
    /\ idx' = 0
    /\ FreshRun
    /\ vid' = v
    /\ cacheHit' = entry.hit
    /\ video_id' = IF entry.hit THEN None ELSE id
    /\ IF entry.hit
       THEN /\ transcript_text' = entry.value
            /\ screen' = ImageOf(v) \o entry.elems
            /\ pc' = "returned"
            /\ cache' = cache
       ELSE IF ~Truthy(id)
            THEN Return(ImageOf(v), None, <<ErrInvalidUrl>>)
       ELSE IF hasGet \/ hasList
            THEN /\ pc' = IF hasGet THEN "get_transcript" ELSE "list_transcripts"
                 /\ screen' = ImageOf(v)
                 /\ transcript_text' = None
                 /\ cache' = cache
       ELSE Return(ImageOf(v), None, <<ErrNoCapability>>)
    /\ UNCHANGED <<envVars, inputVars>>

\* the button is pressed
Press == Submit(Thumbnail(youtube_link), get_video_id(youtube_link), CacheLookup(cache, youtube_link))

runVars == <<envVars, inputVars, vid, caller, video_id, cacheHit>>

\* Path A (lines 116-122): YouTubeTranscriptApi.get_transcript
get_transcript ==
    /\ pc = "get_transcript"
    /\ \E o \in {"ok"} \cup Exceptions :
        /\ Called(o)
        /\ IF o = "ok"
           THEN \E items \in Items :
                    /\ Return(screen, JoinText(items), <<>>)
                    /\ src' = [kind |-> "direct", idx |-> 0, items |-> items]
           ELSE /\ src' = src
                /\ IF o \in SoftExceptions
                   THEN IF hasList
                        THEN Goto("list_transcripts")
                        ELSE Return(screen, None, <<ErrNoCapability>>)
                   ELSE Outer(o)
    /\ UNCHANGED <<runVars, listing, idx, summary, genLog>>

\* Path B (lines 125-126): YouTubeTranscriptApi.list_transcripts
list_transcripts ==
    /\ pc = "list_transcripts"
    /\ \E o \in {"ok"} \cup Exceptions :
        /\ Called(o)
        /\ IF o = "ok"
           THEN \E tl \in Listings : listing' = tl /\ Goto("find_transcript")
           ELSE listing' = listing /\ Outer(o)
    /\ UNCHANGED <<runVars, idx, summary, src, genLog>>

\* a loop that tries the first transcript only
LoopFrom_firstOnly(i) ==
    IF i < Len(listing) /\ i = 0
    THEN idx' = i + 1 /\ Goto("translate")
    ELSE idx' = idx /\ Outer(RaisedAt146)

\* the for loop of line 134 moves to the transcript after position i,
\* or leaves the loop and reaches line 146
LoopFrom(i) ==
    IF i < Len(listing)
    THEN idx' = i + 1 /\ Goto("translate")
    ELSE idx' = idx /\ Outer(RaisedAt146)

\* lines 129-132: tl.find_transcript(languages) and the fetch of what it found
find_transcript ==
    /\ pc = "find_transcript"
    /\ \E o \in {"ok"} \cup Exceptions :
        /\ Called(o)
        /\ IF o = "ok"
           THEN \E i \in 1..Len(listing), items \in Items :
                    /\ listing[i].orig = "ok"
                    /\ Return(screen, JoinText(items), <<>>)
                    /\ src' = [kind |-> "found", idx |-> i, items |-> items]
                    /\ idx' = idx
           ELSE src' = src /\ LoopFrom(0)
    /\ UNCHANGED <<runVars, listing, summary, genLog>>

\* lines 135-138: tr.translate("en") and the fetch of the translation
translate ==
    /\ pc = "translate"
    /\ IF listing[idx].trans = "ok"
       THEN \E items \in Items :
                /\ Called("ok")
                /\ Return(screen, JoinText(items), <<>>)
                /\ src' = [kind |-> "translated", idx |-> idx, items |-> items]
       ELSE \E e \in Exceptions :
                /\ Called(e)
                /\ Goto("fetch")
                /\ src' = src
    /\ UNCHANGED <<runVars, listing, idx, summary, genLog>>

\* lines 139-143: the fetch of the transcript as it is
fetch ==
    /\ pc = "fetch"
    /\ IF listing[idx].orig = "ok"
       THEN \E items \in Items :
                /\ Called("ok")
                /\ Return(screen, JoinText(items), <<>>)
                /\ src' = [kind |-> "original", idx |-> idx, items |-> items]
                /\ idx' = idx
       ELSE \E e \in Exceptions :
                /\ Called(e)
                /\ LoopFrom(idx)
                /\ src' = src
    /\ UNCHANGED <<runVars, listing, summary, genLog>>

svcVars == <<svcCalls, allDisabled, hardRaised, src, listing, transcript_text, cache>>

\* the script has the result of extract_transcript_text (lines 216-218): the locals of
\* the call and its history are gone
after_extract ==
    /\ pc = "returned"
    /\ pc' = IF Truthy(transcript_text) THEN "generate" ELSE "done"
    /\ video_id' = None
    /\ cacheHit' = FALSE
    /\ idx' = 0
    /\ FreshRun
    /\ UNCHANGED <<envVars, inputVars, vid, caller, transcript_text, screen, cache>>

\* what generate_summary_with_gemini displays on its own, and what the script
\* displays once it returned (lines 219-223)
Shown(result) ==
    (IF result = None /\ ~NoInput(transcript_text) THEN <<ErrGemini>> ELSE <<>>)
    \o (IF caller # "ui" THEN <<>>
        ELSE IF Truthy(result) THEN <<Heading, Written(result)>>
        ELSE <<ErrSummary>>)

\* generate_summary_with_gemini is entered (lines 174-177)
generate_summary_with_gemini ==
    /\ pc = "generate"
    /\ genLog' = <<>>
    /\ IF NoInput(transcript_text)
       THEN /\ summary' = None
            /\ screen' = screen \o Shown(None)
            /\ pc' = "done"
            /\ idx' = idx
       ELSE /\ idx' = 1
            /\ pc' = "model"
            /\ UNCHANGED <<summary, screen>>
    /\ UNCHANGED <<runVars, svcVars>>

\* a loop that gives up after the first model
NextModel_giveUp(i) == 0

\* the position of the for loop of line 177 after the model at position i gave no text;
\* 0 when the list is exhausted
NextModel(i) == IF i < Len(MODELS) THEN i + 1 ELSE 0

\* one pass of the for loop (lines 177-198), then lines 200-201 after the last
generate_content ==
    /\ pc = "model"
    /\ \E r \in Responses :
        LET out == ResponseOutcome(r)
        IN  /\ genLog' = Append(genLog, [model |-> MODELS[idx], outcome |-> out.outcome, text |-> out.text])
            /\ IF out.outcome = "text"
               THEN /\ summary' = out.text
                    /\ screen' = screen \o Shown(out.text)
                    /\ pc' = "done"
                    /\ idx' = idx
               ELSE IF NextModel(idx) # 0
               THEN /\ idx' = NextModel(idx)
                    /\ UNCHANGED <<summary, screen, pc>>
               ELSE /\ summary' = None
                    /\ screen' = screen \o Shown(None)
                    /\ pc' = "done"
                    /\ idx' = idx
    /\ UNCHANGED <<runVars, svcVars>>

\* the entry of a URL is older than ttl=3600
Expire ==
    /\ Waiting
    /\ \E u \in DOMAIN cache : cache' = CacheDrop(cache, u)
    /\ UNCHANGED <<envVars, inputVars, vid, pc, caller, video_id, listing, idx, transcript_text,
                   summary, screen, cacheHit, svcCalls, allDisabled, hardRaised, src, genLog>>

Next ==
    \/ EnterUrl
    \/ Rerun
    \/ Press
    \/ get_transcript
    \/ list_transcripts
    \/ find_transcript
    \/ translate
    \/ fetch
    \/ after_extract
    \/ generate_summary_with_gemini
    \/ generate_content
    \/ Expire

Spec == Init /\ [][Next]_vars

\* ---------------------------------------------------------------------
\* get_video_id on its own: any input is in the text box, the script reruns
\* ---------------------------------------------------------------------
InitUrl ==
    /\ apiKey = TRUE
    /\ hasGet = TRUE
    /\ hasList = TRUE
    /\ strictCtor = FALSE
    /\ linkParts \in UrlParts
    /\ youtube_link = Render(linkParts)
    /\ vid = None
    /\ pc = "typed"
    /\ caller = "ui"
    /\ video_id = None
    /\ listing = <<>>
    /\ idx = 0
    /\ transcript_text = None
    /\ summary = None
    /\ screen = <<>>
    /\ cache = <<>>
    /\ cacheHit = FALSE
    /\ svcCalls = 0
    /\ allDisabled = TRUE
    /\ hardRaised = {}
    /\ src = NoSrc
    /\ genLog = <<>>

NextUrl == Rerun

SpecUrl == InitUrl /\ [][NextUrl]_vars

\* ---------------------------------------------------------------------
\* generate_summary_with_gemini on its own: it is called with any text or None,
\* then the script runs as usual
\* ---------------------------------------------------------------------
InitGen ==
    /\ apiKey = TRUE
    /\ hasGet \in BOOLEAN
    /\ hasList \in BOOLEAN
    /\ strictCtor \in BOOLEAN
    /\ youtube_link = <<>>
    /\ linkParts = NoParts
    /\ vid = None
    /\ pc = "generate"
    /\ caller = "direct"
    /\ video_id = None
    /\ listing = <<>>
    /\ idx = 0
    /\ transcript_text \in {None} \cup {JoinText(items) : items \in Items}
    /\ summary = None
    /\ screen = <<>>
    /\ cache = <<>>
    /\ cacheHit = FALSE
    /\ svcCalls = 0
    /\ allDisabled = TRUE
    /\ hardRaised = {}
    /\ src = NoSrc
    /\ genLog = <<>>

SpecGen == InitGen /\ [][Next]_vars

\* ---------------------------------------------------------------------
\* Properties
\* ---------------------------------------------------------------------
\* the input has one of the supported shapes with a well-formed identifier
Supported(p) ==
    /\ p.scheme \in {chHttp, chHttps}
    /\ p.id \in WellFormedIds
    /\ p.extra \in {"none", "after", "before", "frag"}
    /\ \/ p.shape = "short" /\ p.host \in ShortLinkHosts
       \/ p.shape \in {"watch", "shorts", "embed"} /\ p.host \in StandardHosts

\* the input is empty, or on another host, or of a supported shape with an identifier
\* that is not 11 characters long
Malformed(p) ==
    \/ p.shape = "raw" /\ p.id = <<>>
    \/ p.scheme \in {chHttp, chHttps} /\ p.host \in OtherHosts
    \/ /\ p.scheme \in {chHttp, chHttps}
       /\ Len(p.id) # IdLen
       /\ \/ p.shape = "short" /\ p.host \in ShortLinkHosts
          \/ p.shape \in {"watch", "shorts", "embed"} /\ p.host \in StandardHosts

\* C1: for every input of a supported shape (watch?v=, youtu.be/, /shorts/, /embed/,
\* with or without extra query parameters) with a well-formed 11-character identifier,
\* get_video_id returns exactly that identifier.
C1_SupportedShapesGiveId ==
    (pc = "idle" /\ Supported(linkParts)) => vid = linkParts.id

C1_Witness ==
    /\ pc = "idle"
    /\ Supported(linkParts)
    /\ linkParts.shape = "embed"
    /\ linkParts.host = hNoCookie
    /\ linkParts.extra = "after"
    /\ vid = idDashes

\* C2: for every malformed or unsupported input (empty, host that is not a YouTube host,
\* supported shape with an identifier that is not 11 characters long),
\* get_video_id returns None.
C2_MalformedGivesNone ==
    (pc = "idle" /\ Malformed(linkParts)) => vid = None

\* the banners of the screen
Banners == {screen[i] : i \in {k \in 1..Len(screen) : screen[k].kind \in {"error", "warning"}}}

\* extract_transcript_text has just run its body and returned
Resolved == pc = "returned" /\ ~cacheHit

\* C3: when every call made to the transcript service raised TranscriptsDisabled,
\* extract_transcript_text ends with the soft warning and no transcript, whichever
\* of get_transcript and list_transcripts the library exposes.
C3_DisabledGivesWarning ==
    (Resolved /\ svcCalls >= 1 /\ allDisabled)
        => (transcript_text = None /\ Banners = {WarnNotAvailable})

\* the listed transcripts whose translation works, and those that give a text at all
Translatable == {i \in 1..Len(listing) : listing[i].trans = "ok"}
Usable == {i \in 1..Len(listing) : listing[i].trans = "ok" \/ listing[i].orig = "ok"}

\* the for loop over the listing was entered and the call returned
LoopReturned == Resolved /\ idx >= 1

C5_HardErrorsReported ==
    (Resolved /\ hardRaised # {})
        => /\ \E e \in hardRaised : ErrHard(e) \in Banners
           /\ WarnNotAvailable \notin Banners

\* C6: the model names are tried in the fixed order and the result is the text of the
\* first model that yields non-empty text; the call fails only when every model
\* raised or yielded no text.
C6_FirstModelWithText ==
    /\ Len(genLog) <= 2
    /\ Len(genLog) >= 1 => genLog[1].model = "gemini-1.5-flash"
    /\ Len(genLog) >= 2 => genLog[2].model = "gemini-pro"
    /\ \A k \in 1..(Len(genLog) - 1) : genLog[k].outcome # "text"
    /\ pc = "model" => (Len(genLog) = idx - 1 /\ \A k \in 1..Len(genLog) : genLog[k].outcome # "text")
    /\ (pc = "done" /\ genLog # <<>>) =>
          IF genLog[Len(genLog)].outcome = "text"
          THEN summary = genLog[Len(genLog)].text /\ Truthy(summary)
          ELSE Len(genLog) = 2 /\ summary = None /\ ErrGemini \in Banners

C6_Witness ==
    /\ pc = "done"
    /\ Len(genLog) = 2
    /\ genLog[1].outcome = "raised"
    /\ genLog[2].outcome = "text"
    /\ summary = genLog[2].text
    /\ Written(summary) \in Range(screen)

\* C7: with empty or absent text generate_summary_with_gemini returns None without
\* invoking the generation service, and the service is only ever invoked with
\* non-empty transcript text.
C7_NoInputNoCall ==
    /\ (pc = "model" \/ genLog # <<>>) => Truthy(transcript_text)
    /\ (pc = "done" /\ caller = "direct" /\ ~Truthy(transcript_text))
          => (summary = None /\ genLog = <<>> /\ screen = <<>>)

C7_Witness ==
    /\ pc = "done"
    /\ caller = "direct"
    /\ transcript_text = <<>>
    /\ summary = None
    /\ genLog = <<>>

\* C8: whatever the external calls return or raise, no exception leaves
\* get_video_id, extract_transcript_text or generate_summary_with_gemini.
C8_NothingPropagates == pc # "crashed"

C8_Witness ==
    /\ Resolved
    /\ transcript_text = None
    /\ ErrUnexpected("Exception") \in Banners

\* what the responses of this submit alone give
FromResponses == IF src.kind = "none" THEN None ELSE JoinText(src.items)

\* some call to the transcript service is due for this input
ServiceDue == Truthy(vid) /\ (hasGet \/ hasList)

\* C9 (as stated): the result of a submit is determined by its URL and the responses of
\* the transcript service during that submit, not by an earlier submit of the same URL.
C9_Independent ==
    pc = "returned" =>
        /\ transcript_text = FromResponses
        /\ ServiceDue => svcCalls >= 1

\* C9 (amended): a submit whose URL has no cache entry is determined by its URL and the
\* responses of the transcript service during that submit; a submit whose URL has an
\* entry (an earlier submit within the hour) gets that entry, a failure included,
\* without a call to the service.
C9_IndependentUnlessCached ==
    pc = "returned" =>
        /\ youtube_link \in DOMAIN cache
        /\ cache[youtube_link].value = transcript_text
        /\ IF cacheHit
           THEN svcCalls = 0 /\ src = NoSrc
           ELSE /\ transcript_text = FromResponses
                /\ ServiceDue => svcCalls >= 1

C9_Witness ==
    /\ pc = "returned"
    /\ cacheHit
    /\ ServiceDue
    /\ transcript_text = None
    /\ WarnNotAvailable \in Banners

\* C10: every submit ends with the summary rendered or with a warning or an error shown.
C10_VisibleOutcome ==
    pc = "done" => (Banners # {} \/ \E i \in 1..Len(screen) : screen[i].kind = "write")

====
